---- MODULE Spec2Model ----
(***************************************************************************)
(* datasubst: a command-line tool that renders a go text/template against  *)
(* data read from a JSON file, a YAML file or the process environment.     *)
(*                                                                         *)
(* The model follows the latest revision of main.go (src/unnamed/part_002):*)
(* parseArgs, then main's five blocks (read input, load data and take the  *)
(* subtree, prepare the template, create the output, render).              *)
(*                                                                         *)
(* Strings are sequences of one-character strings, so that strings.Split,  *)
(* strings.Count and the template lexer work on characters.                *)
(***************************************************************************)
EXTENDS Integers, Sequences, FiniteSets, TLC

VARIABLES
    osArgs,        \* the command line, as the values flag.Parse will store
    inFile,        \* what reading the template input yields
    dataFile,      \* what opening and decoding the data file yields
    environ,       \* os.Environ(): a sequence of NAME=VALUE strings
    createOK,      \* whether os.Create of the output file succeeds
    inputFile, outputFile, jsonDataFile, yamlDataFile, delimiters, subtree,
    envFlag, strictFlag, helpFlag, versionFlag,   \* the flag globals
    tplStr,        \* main's tplStr
    data,          \* main's data
    err,           \* main's err after the data block: TRUE for a non-nil error
    tpl,           \* main's tpl once parsed
    stdout,        \* bytes written to standard output
    fileOut,       \* contents of the file named by --output
    pc,            \* the block of main that runs next
    exit,          \* how the process ended
    walked,        \* the keys getSubTree looked up (history)
    navRan         \* whether getSubTree was called (history)

world == <<osArgs, inFile, dataFile, environ, createOK>>
flags == <<inputFile, outputFile, jsonDataFile, yamlDataFile, delimiters,
           subtree, envFlag, strictFlag, helpFlag, versionFlag>>
vars == <<world, flags, tplStr, data, err, tpl, stdout, fileOut, pc, exit,
          walked, navRan>>

-----------------------------------------------------------------------------
(* Bounds of the input strings.                                            *)

MaxPathLen == 4

MaxDelimLen == 5

MaxEnvLen == 4

MaxTplLen == 5

MaxChainLen == 2

-----------------------------------------------------------------------------
(* Strings.                                                                *)

\* All strings over alphabet of length at most n.
StringsUpTo(alphabet, n) == UNION {[1..k -> alphabet] : k \in 0..n}

\* The Go string literal "" .
Empty == <<>>

\* strings.Count(s, sep) for a one-character sep.
Count(s, sep) == Cardinality({i \in 1..Len(s) : s[i] = sep})

\* strings.HasPrefix(s, p).
HasPrefix(s, p) == Len(p) <= Len(s) /\ SubSeq(s, 1, Len(p)) = p

\* s[n:] in Go (0-based n).
From(s, n) == SubSeq(s, n + 1, Len(s))

\* strings.Index(s, sep) for a one-character sep, 1-based; 0 when absent.
IndexOf(s, sep) ==
    IF \E i \in 1..Len(s) : s[i] = sep
    THEN CHOOSE i \in 1..Len(s) : s[i] = sep /\ \A j \in 1..(i - 1) : s[j] # sep
    ELSE 0

\* strings.Split(s, sep) for a one-character sep: every piece between
\* separators, so Count(s, sep) + 1 pieces.
RECURSIVE Split(_, _)
Split(s, sep) ==
    IF IndexOf(s, sep) = 0
    THEN <<s>>
    ELSE <<SubSeq(s, 1, IndexOf(s, sep) - 1)>> \o Split(From(s, IndexOf(s, sep)), sep)

-----------------------------------------------------------------------------
(* Decoded data: interface{} values as json/yaml decode them.              *)
(* kind "nil" is Go's nil interface: a JSON/YAML null, and also what        *)
(* indexing a map with an absent key yields.                               *)

NoMap == [k \in {} |-> 0]

Nil == [kind |-> "nil", s |-> Empty, m |-> NoMap]

Str(s) == [kind |-> "str", s |-> s, m |-> NoMap]

List == [kind |-> "seq", s |-> Empty, m |-> NoMap]

Map(m) == [kind |-> "map", s |-> Empty, m |-> m]

IsMap(v) == v.kind = "map"

\* v[k] on a Go map: the element, or nil when the key is absent.
MapGet(v, k) == IF k \in DOMAIN v.m THEN v.m[k] ELSE Nil

KA == <<"a">>

KB == <<"b">>

V3 == Str(<<"v", "3">>)

\* One map entry; @@ joins entries.
Entry(k, v) == k :> v

-----------------------------------------------------------------------------
(* The data loaders and the subtree navigator.                             *)

\* parseJSON: (nil, err) when the file cannot be opened or decoded, else
\* (the decoded root, nil).
parseJSON(file) ==
    IF file.ok THEN [val |-> file.root, err |-> FALSE]
               ELSE [val |-> Nil, err |-> TRUE]

\* parseYAML: as parseJSON, with the YAML decoder.
parseYAML(file) ==
    IF file.ok THEN [val |-> file.root, err |-> FALSE]
               ELSE [val |-> Nil, err |-> TRUE]

\* The loop of parseEnv over os.Environ(): data[envKv[0]] = envKv[1] with
\* envKv the pieces of the entry between '=' characters.
RECURSIVE envLoop(_, _)
envLoop(env, m) ==
    IF env = <<>>
    THEN m
    ELSE LET envKv == Split(Head(env), "=")
         IN  envLoop(Tail(env),
                     [k \in (DOMAIN m) \cup {envKv[1]} |->
                         IF k = envKv[1] THEN Str(envKv[2]) ELSE m[k]])

\* parseEnv: a map[string]string of the environment; never an error.
parseEnv(env) == [val |-> Map(envLoop(env, NoMap)), err |-> FALSE]

\* The loop of getSubTree: the type assertion data.(map[string]interface{})
\* panics on anything that is not a map (nil included); v[k] is nil for an
\* absent key.  keys records the keys looked up.
RECURSIVE rangeSt(_, _, _)
rangeSt(d, st, keys) ==
    IF st = <<>> THEN [panic |-> FALSE, val |-> d, keys |-> keys]
    ELSE IF ~IsMap(d) THEN [panic |-> TRUE, val |-> d, keys |-> keys]
    ELSE rangeSt(MapGet(d, Head(st)), Tail(st), Append(keys, Head(st)))

\* Mutant of subtreeKeys: the [1:] is forgotten.
subtreeKeysNoDrop(path) == Split(path, ".")

\* st := strings.Split(subtree, ".")[1:], from the global subtree (the
\* parameter substree is not read).
subtreeKeys(path) == Tail(Split(path, "."))

getSubTree(d, substree) == rangeSt(d, subtreeKeys(subtree), <<>>)

\* Mutant of countTrue: whether any of the booleans is true.
countTrueAny(b) == IF \E i \in 1..Len(b) : b[i] THEN 1 ELSE 0

\* countTrue(b...): how many of the booleans are true.
RECURSIVE countTrue(_)
countTrue(b) ==
    IF b = <<>> THEN 0
    ELSE (IF Head(b) THEN 1 ELSE 0) + countTrue(Tail(b))

\* Mutant of badDelimiters: the check of the last character is missing.
badDelimitersNoRight(d) ==
    \/ Count(d, ":") # 1
    \/ SubSeq(d, 1, 1) = <<":">>

\* The delimiter check of main: strings.Count(delimiters, ":") != 1 ||
\* delimiters[len(delimiters)-1:] == ":" || delimiters[0:1] == ":".
badDelimiters(d) ==
    \/ Count(d, ":") # 1
    \/ From(d, Len(d) - 1) = <<":">>
    \/ SubSeq(d, 1, 1) = <<":">>

\* Mutant of splitDelims: the two sides are handed to Delims in the wrong order.
splitDelimsSwapped(d) == [left |-> Split(d, ":")[2], right |-> Split(d, ":")[1]]

\* d := strings.Split(delimiters, ":"); tpl.Delims(d[0], d[1]).
splitDelims(d) == [left |-> Split(d, ":")[1], right |-> Split(d, ":")[2]]

\* template.New: the delimiters left unset are "{{" and "}}".
defaultDelims == [left |-> <<"{", "{">>, right |-> <<"}", "}">>]

-----------------------------------------------------------------------------
(* text/template, as main uses it: Delims, Option("missingkey=error"),     *)
(* Parse and Execute.  A template is a string over the characters          *)
(* { } ( ) #  and the field references .a and .b (each one character of    *)
(* the model); consecutive field references form a chain such as .a.b .    *)

FieldAtoms == {".a", ".b"}

\* The key a field reference names.
fieldKey(atom) == IF atom = ".a" THEN KA ELSE KB

\* strings.Index(s, sub) as a 0-based offset; -1 when sub does not occur.
FindSub(s, sub) ==
    IF \E i \in 0..(Len(s) - Len(sub)) : HasPrefix(From(s, i), sub)
    THEN CHOOSE i \in 0..(Len(s) - Len(sub)) :
            /\ HasPrefix(From(s, i), sub)
            /\ \A j \in 0..(i - 1) : ~HasPrefix(From(s, j), sub)
    ELSE -1

LexFail == [ok |-> FALSE, toks |-> <<>>, rest |-> <<>>]

\* lexInsideAction: the right delimiter is looked for first and closes the
\* action only at parenthesis depth 0; then parentheses and fields are
\* tokens, and any other character (or the end of input) is an error.
RECURSIVE lexInsideAction(_, _, _, _)
lexInsideAction(s, right, depth, toks) ==
    IF HasPrefix(s, right)
    THEN IF depth = 0
         THEN [ok |-> TRUE, toks |-> toks, rest |-> From(s, Len(right))]
         ELSE LexFail
    ELSE IF s = <<>> THEN LexFail
    ELSE IF Head(s) = "("
         THEN lexInsideAction(Tail(s), right, depth + 1, Append(toks, "("))
    ELSE IF Head(s) = ")"
         THEN IF depth = 0 THEN LexFail
              ELSE lexInsideAction(Tail(s), right, depth - 1, Append(toks, ")"))
    ELSE IF Head(s) \in FieldAtoms
         THEN lexInsideAction(Tail(s), right, depth, Append(toks, Head(s)))
    ELSE LexFail

\* Length of the run of field tokens that toks starts with.
RECURSIVE fieldRun(_)
fieldRun(toks) ==
    IF toks # <<>> /\ Head(toks) \in FieldAtoms THEN 1 + fieldRun(Tail(toks)) ELSE 0

fieldKeys(toks) == [i \in 1..Len(toks) |-> fieldKey(toks[i])]

FieldNode(idents) == [t |-> "field", idents |-> idents, inner |-> <<>>]

\* A parenthesized pipeline, with the fields chained to it (ChainNode) if any.
PipeNode(inner, idents) == [t |-> "pipe", idents |-> idents, inner |-> <<inner>>]

ParseFail == [ok |-> FALSE, node |-> FieldNode(<<>>), rest |-> <<>>]

\* parse.Tree's operand: a field chain, or "(" pipeline ")" with optional
\* chained fields.  Without spaces or "|" a pipeline is one command of one
\* operand, so the token after an operand must close the pipeline.
RECURSIVE operand(_)
operand(toks) ==
    IF toks = <<>> THEN ParseFail
    ELSE IF Head(toks) \in FieldAtoms
         THEN [ok |-> TRUE,
               node |-> FieldNode(fieldKeys(SubSeq(toks, 1, fieldRun(toks)))),
               rest |-> From(toks, fieldRun(toks))]
    ELSE IF Head(toks) = "("
         THEN LET p == operand(Tail(toks))
              IN  IF ~p.ok \/ p.rest = <<>> THEN ParseFail
                  ELSE IF Head(p.rest) # ")" THEN ParseFail
                  ELSE LET after == Tail(p.rest)
                       IN  [ok |-> TRUE,
                            node |-> PipeNode(p.node,
                                       fieldKeys(SubSeq(after, 1, fieldRun(after)))),
                            rest |-> From(after, fieldRun(after))]
    ELSE ParseFail

TextNode(text) == [t |-> "text", text |-> text, pipe |-> FieldNode(<<>>)]

ActionNode(pipe) == [t |-> "action", text |-> <<>>, pipe |-> pipe]

TreeFail == [ok |-> FALSE, nodes |-> <<>>]

\* Template.Parse: lexText up to the next left delimiter, then one action;
\* any lexing or parsing error fails the whole parse.
RECURSIVE parseTree(_, _, _)
parseTree(s, delims, nodes) ==
    LET x == FindSub(s, delims.left)
    IN  IF x < 0
        THEN [ok |-> TRUE,
              nodes |-> IF s = <<>> THEN nodes ELSE Append(nodes, TextNode(s))]
        ELSE LET a == lexInsideAction(From(s, x + Len(delims.left)), delims.right, 0, <<>>)
                 o == operand(a.toks)
                 pre == IF x = 0 THEN nodes ELSE Append(nodes, TextNode(SubSeq(s, 1, x)))
             IN  IF ~a.ok THEN TreeFail
                 ELSE IF ~o.ok \/ o.rest # <<>> THEN TreeFail
                 ELSE parseTree(a.rest, delims, Append(pre, ActionNode(o.node)))

Parse(text, delims) == parseTree(text, delims, <<>>)

\* An invalid reflect.Value: the zero Value a failed lookup yields.
Invalid == [kind |-> "invalid", s |-> Empty, m |-> NoMap]

EvalErr == [err |-> TRUE, val |-> Invalid]

\* Mutant of evalField: an absent key is an error whatever the option.
evalFieldKeyError(receiver, key, strict) ==
    IF receiver.kind = "invalid"
    THEN IF strict THEN EvalErr ELSE [err |-> FALSE, val |-> Invalid]
    ELSE IF receiver.kind # "map" THEN EvalErr
    ELSE IF key \in DOMAIN receiver.m
         THEN [err |-> FALSE, val |-> receiver.m[key]]
    ELSE EvalErr

\* state.evalField on map data: an invalid receiver is an error only under
\* missingkey=error; a nil interface and a non-map receiver are errors;
\* an absent map key is invalid, or an error under missingkey=error.
evalField(receiver, key, strict) ==
    IF receiver.kind = "invalid"
    THEN IF strict THEN EvalErr ELSE [err |-> FALSE, val |-> Invalid]
    ELSE IF receiver.kind # "map" THEN EvalErr
    ELSE IF key \in DOMAIN receiver.m
         THEN [err |-> FALSE, val |-> receiver.m[key]]
    ELSE IF strict THEN EvalErr ELSE [err |-> FALSE, val |-> Invalid]

\* state.evalFieldChain: evalField for each identifier in turn.
RECURSIVE evalFieldChain(_, _, _)
evalFieldChain(receiver, idents, strict) ==
    IF idents = <<>> THEN [err |-> FALSE, val |-> receiver]
    ELSE LET r == evalField(receiver, Head(idents), strict)
         IN  IF r.err THEN r ELSE evalFieldChain(r.val, Tail(idents), strict)

\* reflect.ValueOf(value.Interface()): a nil interface becomes invalid.
indirectInterface(v) == IF v.kind = "nil" THEN Invalid ELSE v

\* state.evalPipeline of a one-command pipeline.
RECURSIVE evalPipeline(_, _, _)
evalPipeline(node, dot, strict) ==
    LET r == IF node.t = "field"
             THEN evalFieldChain(dot, node.idents, strict)
             ELSE LET p == evalPipeline(node.inner[1], dot, strict)
                  IN  IF p.err THEN p ELSE evalFieldChain(p.val, node.idents, strict)
    IN  IF r.err THEN r ELSE [err |-> FALSE, val |-> indirectInterface(r.val)]

\* printValue: what an action writes for a value.
printValue(v) ==
    CASE v.kind = "str" -> v.s
      [] v.kind = "map" -> <<"map[]">>
      [] v.kind = "seq" -> <<"[]">>
      [] OTHER -> <<"<no value>">>

\* The walk of Template.Execute: text is written as it is met; the first
\* failing action ends the walk, with what was written before it kept.
RECURSIVE walk(_, _, _, _)
walk(nodes, dot, strict, out) ==
    IF nodes = <<>> THEN [err |-> FALSE, out |-> out]
    ELSE IF Head(nodes).t = "text"
         THEN walk(Tail(nodes), dot, strict, out \o Head(nodes).text)
    ELSE LET r == evalPipeline(Head(nodes).pipe, dot, strict)
         IN  IF r.err THEN [err |-> TRUE, out |-> out]
             ELSE walk(Tail(nodes), dot, strict, out \o printValue(r.val))

Execute(t, d) == walk(t.nodes, indirectInterface(d), t.strict, <<>>)

-----------------------------------------------------------------------------
(* The process: parseArgs and the blocks of main.                          *)

Running == [code |-> -1, msg |-> "running"]

\* os.Exit(0), or main returning.
Exit0(msg) == [code |-> 0, msg |-> msg]

\* log.Fatal / log.Fatalf: the message on stderr, exit status 1.
Fatal(msg) == [code |-> 1, msg |-> msg]

\* An unrecovered runtime panic: exit status 2.
Panic == [code |-> 2, msg |-> "panic: interface conversion"]

NoTpl == [nodes |-> <<>>, strict |-> FALSE, delims |-> defaultDelims]

\* The contents of the output file before the run.
OldContents == <<"old">>

\* A command line with no arguments: len(os.Args) == 1.
NoArgs ==
    [any |-> FALSE, input |-> "", output |-> "", json |-> "", yaml |-> "",
     env |-> FALSE, subtree |-> Empty, delimiters |-> Empty, strict |-> FALSE,
     help |-> FALSE, version |-> FALSE]

\* The command lines with at least one argument, by the values they give.
ArgLines(J, Y, E, T, D, S, I, O, H, V) ==
    [any : {TRUE}, input : I, output : O, json : J, yaml : Y, env : E,
     subtree : T, delimiters : D, strict : S, help : H, version : V]

InitFrom(Args, Ins, Datas, Envs, Creates) ==
    /\ osArgs \in Args
    /\ inFile \in Ins
    /\ dataFile \in Datas
    /\ environ \in Envs
    /\ createOK \in Creates
    /\ inputFile = "" /\ outputFile = "" /\ jsonDataFile = "" /\ yamlDataFile = ""
    /\ delimiters = Empty /\ subtree = Empty
    /\ envFlag = FALSE /\ strictFlag = FALSE /\ helpFlag = FALSE /\ versionFlag = FALSE
    /\ tplStr = Empty
    /\ data = Nil
    /\ err = FALSE
    /\ tpl = NoTpl
    /\ stdout = <<>>
    /\ fileOut = OldContents
    /\ pc = "parseArgs"
    /\ exit = Running
    /\ walked = <<>>
    /\ navRan = FALSE

\* parseArgs: usage when there are no arguments; flag.Parse; --version and
\* --help print and exit 0; then exactly one data source must be selected.
parseArgs ==
    /\ pc = "parseArgs"
    /\ IF ~osArgs.any
       THEN /\ UNCHANGED <<flags, stdout>>
            /\ exit' = Fatal("Usage:")
            /\ pc' = "exited"
       ELSE /\ inputFile' = osArgs.input
            /\ outputFile' = osArgs.output
            /\ jsonDataFile' = osArgs.json
            /\ yamlDataFile' = osArgs.yaml
            /\ delimiters' = osArgs.delimiters
            /\ subtree' = osArgs.subtree
            /\ envFlag' = osArgs.env
            /\ strictFlag' = osArgs.strict
            /\ helpFlag' = osArgs.help
            /\ versionFlag' = osArgs.version
            /\ IF osArgs.version
               THEN /\ stdout' = <<"version">>
                    /\ exit' = Exit0("version")
                    /\ pc' = "exited"
               ELSE IF osArgs.help
               THEN /\ stdout' = <<"usage">>
                    /\ exit' = Exit0("help")
                    /\ pc' = "exited"
               ELSE IF countTrue(<<osArgs.json # "", osArgs.yaml # "", osArgs.env>>) # 1
               THEN /\ stdout' = stdout
                    /\ exit' = Fatal("Error: please specify --json-data, --yaml-data or --env-data")
                    /\ pc' = "exited"
               ELSE /\ stdout' = stdout
                    /\ exit' = exit
                    /\ pc' = "readInput"
    /\ UNCHANGED <<world, tplStr, data, err, tpl, fileOut, walked, navRan>>

\* main, "Read input": open the input file unless it is "" or "-" (standard
\* input), and read it all.
readInput ==
    /\ pc = "readInput"
    /\ IF inputFile # "" /\ inputFile # "-" /\ inFile.status = "noopen"
       THEN /\ exit' = Fatal("Error opening input file")
            /\ pc' = "exited"
            /\ tplStr' = tplStr
       ELSE IF inFile.status = "noread"
       THEN /\ exit' = Fatal("Error reading input file")
            /\ pc' = "exited"
            /\ tplStr' = tplStr
       ELSE /\ tplStr' = inFile.text
            /\ exit' = exit
            /\ pc' = "loadData"
    /\ UNCHANGED <<world, flags, data, err, tpl, stdout, fileOut, walked, navRan>>

\* main, "Read and Parse data file": the loader of the selected source; for
\* JSON and YAML getSubTree when subtree is not empty, before err is looked
\* at; then err.
loadData ==
    /\ pc = "loadData"
    /\ LET fromFile == jsonDataFile # "" \/ yamlDataFile # ""
           loaded == IF jsonDataFile # "" THEN parseJSON(dataFile)
                     ELSE IF yamlDataFile # "" THEN parseYAML(dataFile)
                     ELSE parseEnv(environ)
           nav == fromFile /\ subtree # Empty
           sub == getSubTree(loaded.val, subtree)
       IN  /\ err' = loaded.err
           /\ navRan' = nav
           /\ walked' = IF nav THEN sub.keys ELSE <<>>
           /\ IF nav /\ sub.panic
              THEN /\ data' = loaded.val
                   /\ exit' = Panic
                   /\ pc' = "exited"
              ELSE IF loaded.err
              THEN /\ data' = IF nav THEN sub.val ELSE loaded.val
                   /\ exit' = Fatal("Error opening data file")
                   /\ pc' = "exited"
              ELSE /\ data' = IF nav THEN sub.val ELSE loaded.val
                   /\ exit' = exit
                   /\ pc' = "prepareTemplate"
    /\ UNCHANGED <<world, flags, tplStr, tpl, stdout, fileOut>>

\* main, "Prepare Template": missingkey=error under --strict, the delimiter
\* check and Delims when delimiters is not empty, then Parse.
prepareTemplate ==
    /\ pc = "prepareTemplate"
    /\ IF delimiters # Empty /\ badDelimiters(delimiters)
       THEN /\ exit' = Fatal("Error: invalid delimiter format. Must be '<left>:<right>' and ':'")
            /\ pc' = "exited"
            /\ tpl' = tpl
       ELSE LET d == IF delimiters # Empty THEN splitDelims(delimiters) ELSE defaultDelims
                p == Parse(tplStr, d)
            IN  IF ~p.ok
                THEN /\ exit' = Fatal("Error parsing template")
                     /\ pc' = "exited"
                     /\ tpl' = tpl
                ELSE /\ tpl' = [nodes |-> p.nodes, strict |-> strictFlag, delims |-> d]
                     /\ exit' = exit
                     /\ pc' = "createOutput"
    /\ UNCHANGED <<world, flags, tplStr, data, err, stdout, fileOut, walked, navRan>>

\* Whether out is a file that os.Create made, and not os.Stdout.
toFile == outputFile # "" /\ outputFile # "-"

\* Mutant of createOutput: os.Create is called before "Prepare Template".
createOutputBeforeParse ==
    /\ pc = "prepareTemplate"
    /\ toFile /\ createOK
    /\ fileOut' = <<>>
    /\ UNCHANGED <<world, flags, tplStr, data, err, tpl, stdout, pc, exit, walked, navRan>>

\* main, "Render", first half: os.Create truncates or creates the output file.
createOutput ==
    /\ pc = "createOutput"
    /\ IF toFile /\ ~createOK
       THEN /\ exit' = Fatal("Error creating output file")
            /\ pc' = "exited"
            /\ fileOut' = fileOut
       ELSE /\ fileOut' = IF toFile THEN <<>> ELSE fileOut
            /\ exit' = exit
            /\ pc' = "execute"
    /\ UNCHANGED <<world, flags, tplStr, data, err, tpl, stdout, walked, navRan>>

\* main, "Render", second half: tpl.Execute(out, data).
execute ==
    /\ pc = "execute"
    /\ LET r == Execute(tpl, data)
       IN  /\ IF toFile
              THEN fileOut' = fileOut \o r.out /\ stdout' = stdout
              ELSE stdout' = stdout \o r.out /\ fileOut' = fileOut
           /\ exit' = IF r.err THEN Fatal("Error rendering template") ELSE Exit0("done")
    /\ pc' = "exited"
    /\ UNCHANGED <<world, flags, tplStr, data, err, tpl, walked, navRan>>

Next ==
    \/ parseArgs
    \/ readInput
    \/ loadData
    \/ prepareTemplate
    \/ createOutput
    \/ execute

-----------------------------------------------------------------------------
(* Inputs.                                                                 *)

\* {a: {b: {a: v3}}}: the shape of the README's key2.first.key3 example.
RootNested == Map(KA :> Map(KB :> Map(KA :> V3)))

\* {a: v3, b: {a: v3}}
RootMixed == Map(KA :> V3 @@ KB :> Map(KA :> V3))

\* {a: null, b: [...]}
RootNullSeq == Map(KA :> Nil @@ KB :> List)

\* {}
RootEmpty == Map(NoMap)

Roots == {RootNested, RootMixed, RootNullSeq, RootEmpty, V3, Nil, List}

Decoded(root) == [ok |-> TRUE, root |-> root]

\* A data file that cannot be opened, or whose contents do not decode.
Undecodable == [ok |-> FALSE, root |-> Nil]

Readable(text) == [status |-> "ok", text |-> text]

\* An action of the template in the default delimiters.
Act(body) == <<"{", "{">> \o body \o <<"}", "}">>

Dot == <<".">>

Colon == <<":">>

\* The delimiter specification ((:)) of the usage text.
ParenDelims == <<"(", "(", ":", ")", ")">>

\* One environment entry: a non-empty name, '=', and any value.
EnvEntries ==
    {e \in StringsUpTo({"a", "=", "v"}, MaxEnvLen) : IndexOf(e, "=") > 1}

FileSources == {<<"data.json", "", FALSE>>, <<"", "data.yaml", FALSE>>}

EnvSource == <<"", "", TRUE>>

\* Command lines naming one of the given sources.
ArgsFor(Sources, T, D, S, O) ==
    {a \in ArgLines({"", "data.json"}, {"", "data.yaml"}, BOOLEAN, T, D, S, {""}, O,
                    {FALSE}, {FALSE}) : <<a.json, a.yaml, a.env>> \in Sources}

\* Every combination of the flags, over a few values of each.
Init ==
    InitFrom({NoArgs} \cup
               ArgLines({"", "data.json"}, {"", "data.yaml"}, BOOLEAN,
                        {Empty, Dot \o KA}, {Empty, ParenDelims, <<"(", ":">>},
                        BOOLEAN, {"", "-", "in.tpl"}, {"", "-", "out.txt"},
                        BOOLEAN, BOOLEAN),
             {Readable(Act(<<".a">>)), Readable(<<"(", "(", ".b", ")", ")">>),
              [status |-> "noopen", text |-> Empty],
              [status |-> "noread", text |-> Empty]},
             {Decoded(RootMixed), Undecodable},
             {<<<<"a", "=", "v">>>>},
             BOOLEAN)

Spec == Init /\ [][Next]_vars

\* JSON or YAML runs over every subtree path and every root.
InitNav ==
    InitFrom(ArgsFor(FileSources, StringsUpTo({".", "a", "b"}, MaxPathLen),
                     {Empty}, BOOLEAN, {""}),
             {Readable(Act(<<".a">>)), Readable(Act(<<".b", ".a">>))},
             {Decoded(r) : r \in Roots} \cup {Undecodable},
             {<<<<"a", "=", "v">>>>},
             {TRUE})

SpecNav == InitNav /\ [][Next]_vars

\* Environment runs over every one-entry environment.
InitEnv ==
    InitFrom(ArgsFor({EnvSource}, {Empty}, {Empty}, BOOLEAN, {""}),
             {Readable(Act(<<".a">>)), Readable(<<"#">>)},
             {Undecodable},
             {<<e>> : e \in EnvEntries},
             {TRUE})

SpecEnv == InitEnv /\ [][Next]_vars

\* JSON runs over every delimiter specification.
InitDelims ==
    InitFrom(ArgsFor({<<"data.json", "", FALSE>>}, {Empty},
                     StringsUpTo({":", "(", ")"}, MaxDelimLen), {FALSE},
                     {"", "out.txt"}),
             {Readable(<<"(", ".a", ")">>), Readable(<<"(", "(", ".a", ")", ")">>),
              Readable(Act(<<".a">>))},
             {Decoded(RootMixed), Undecodable},
             {<<<<"a", "=", "v">>>>},
             BOOLEAN)

SpecDelims == InitDelims /\ [][Next]_vars

\* The field chains .a, .b, .a.a, ... of up to MaxChainLen fields.
Chains == StringsUpTo(FieldAtoms, MaxChainLen) \ {Empty}

\* Templates of one action, and of two actions around a text.
ChainTemplates ==
    {Act(c) : c \in Chains} \cup
    {Act(c[1]) \o <<"#">> \o Act(c[2]) : c \in Chains \X Chains}

\* JSON and environment runs, strict and not, over templates of field chains.
InitRender ==
    InitFrom(ArgsFor({<<"data.json", "", FALSE>>, EnvSource}, {Empty, Dot \o KA},
                     {Empty}, BOOLEAN, {""}),
             {Readable(t) : t \in ChainTemplates},
             {Decoded(r) : r \in Roots},
             {<<<<"a", "=", "v">>>>},
             {TRUE})

SpecRender == InitRender /\ [][Next]_vars

\* The characters of a template: braces, parentheses, a field, a text.
TplAlphabet == {"{", "}", "(", ")", ".a", "#"}

\* JSON runs over every template text, in the default delimiters and in ((:)).
InitTpl ==
    InitFrom(ArgsFor({<<"data.json", "", FALSE>>}, {Empty}, {Empty, ParenDelims},
                     BOOLEAN, {""}),
             {Readable(t) : t \in StringsUpTo(TplAlphabet, MaxTplLen)},
             {Decoded(RootMixed), Decoded(RootEmpty)},
             {<<<<"a", "=", "v">>>>},
             {TRUE})

SpecTpl == InitTpl /\ [][Next]_vars

\* JSON runs to a file or to standard output in which each block can fail:
\* an input that cannot be opened or read, a data file that does not load, a
\* subtree path that panics, a bad delimiter specification, a template that
\* does not parse, an output file that cannot be created, a render error.
InitOut ==
    InitFrom(ArgLines({"data.json"}, {""}, {FALSE},
                      {Empty, Dot \o KA, Dot \o KA \o Dot \o KB},
                      {Empty, ParenDelims, <<"(", ":">>, <<"(", ":", ")", ")">>},
                      BOOLEAN, {"", "in.tpl"}, {"", "-", "out.txt"},
                      {FALSE}, {FALSE}),
             {Readable(Act(<<".a">>)), Readable(<<"(", ".a", ")">>),
              Readable(<<"#", "{", "{">>), Readable(<<"#">> \o Act(<<".a", ".b">>)),
              [status |-> "noopen", text |-> Empty],
              [status |-> "noread", text |-> Empty]},
             {Decoded(RootMixed), Decoded(RootNested), Undecodable},
             {<<<<"a", "=", "v">>>>},
             BOOLEAN)

SpecOut == InitOut /\ [][Next]_vars

-----------------------------------------------------------------------------
(* Vocabulary of the properties.                                           *)

Blocks == <<"parseArgs", "readInput", "loadData", "prepareTemplate",
            "createOutput", "execute">>

BlockIndex(b) == CHOOSE i \in 1..Len(Blocks) : Blocks[i] = b

\* The block that ended a process with the given exit.
ExitBlock(e) ==
    CASE e.msg \in {"Usage:", "version", "help",
                    "Error: please specify --json-data, --yaml-data or --env-data"}
            -> "parseArgs"
      [] e.msg \in {"Error opening input file", "Error reading input file"}
            -> "readInput"
      [] e.msg \in {"Error opening data file", "panic: interface conversion"}
            -> "loadData"
      [] e.msg \in {"Error: invalid delimiter format. Must be '<left>:<right>' and ':'",
                    "Error parsing template"}
            -> "prepareTemplate"
      [] e.msg = "Error creating output file" -> "createOutput"
      [] OTHER -> "execute"

\* Block b has run, to its end or to the exit it made.
HasRun(b) ==
    IF pc = "exited" THEN BlockIndex(ExitBlock(exit)) >= BlockIndex(b)
                     ELSE BlockIndex(pc) > BlockIndex(b)

UsageErrors ==
    {Fatal("Usage:"),
     Fatal("Error: please specify --json-data, --yaml-data or --env-data")}

DelimiterError ==
    Fatal("Error: invalid delimiter format. Must be '<left>:<right>' and ':'")

\* The command line reaches the data-source check of parseArgs.
SelectorsChecked ==
    pc # "parseArgs" /\ osArgs.any /\ ~osArgs.version /\ ~osArgs.help

\* Exactly one of --json-data, --yaml-data, --env-data is given.
ExactlyOne(a) ==
    \/ a.json # "" /\ a.yaml = "" /\ ~a.env
    \/ a.json = "" /\ a.yaml # "" /\ ~a.env
    \/ a.json = "" /\ a.yaml = "" /\ a.env

\* The segments of a path written with a leading '.'.
DottedSegments(p) == Split(Tail(p), ".")

Dotted(p) == p # Empty /\ Head(p) = "."

\* Every segment names a key present in a mapping at its step.
RECURSIVE Resolves(_, _)
Resolves(v, segs) ==
    \/ segs = <<>>
    \/ /\ IsMap(v)
       /\ Head(segs) \in DOMAIN v.m
       /\ Resolves(v.m[Head(segs)], Tail(segs))

\* The value stored at a path that resolves.
RECURSIVE ValueAt(_, _)
ValueAt(v, segs) ==
    IF segs = <<>> THEN v ELSE ValueAt(v.m[Head(segs)], Tail(segs))

\* Following present keys, a value that is not a mapping is met while a
\* segment remains.
RECURSIVE HitsNonMap(_, _)
HitsNonMap(v, segs) ==
    /\ segs # <<>>
    /\ \/ ~IsMap(v)
       \/ /\ IsMap(v)
          /\ Head(segs) \in DOMAIN v.m
          /\ HitsNonMap(v.m[Head(segs)], Tail(segs))

\* How a field chain fares on a value: "ok" when every key is present,
\* "missing" when a mapping is reached that lacks the next key, "fault" when
\* a field is asked of a value that is no mapping (a scalar, a sequence, a
\* null entry), "noroot" when the data root itself is nil.
RECURSIVE ChainClass(_, _)
ChainClass(v, idents) ==
    IF idents = <<>> THEN "ok"
    ELSE IF v.kind = "map"
         THEN IF Head(idents) \in DOMAIN v.m
              THEN ChainClass(v.m[Head(idents)], Tail(idents))
              ELSE "missing"
    ELSE "fault"

\* The classes of the actions of the parsed template, in order, on data.
ActionClasses ==
    LET acts == SelectSeq(tpl.nodes, LAMBDA n : n.t = "action")
    IN  [i \in 1..Len(acts) |->
            IF data = Nil THEN "noroot" ELSE ChainClass(data, acts[i].pipe.idents)]

RenderError == Fatal("Error rendering template")

\* The template with each substitution marker of the default delimiters
\* rewritten: the {{ that opens an action becomes ((, the }} that closes it
\* becomes )), text and action bodies are kept.  An action that does not lex
\* has only its opening marker rewritten.
RECURSIVE RewriteMarkers(_)
RewriteMarkers(s) ==
    LET x == FindSub(s, defaultDelims.left)
        a == lexInsideAction(From(s, x + 2), defaultDelims.right, 0, <<>>)
    IN  IF x < 0 THEN s
        ELSE IF ~a.ok THEN SubSeq(s, 1, x) \o <<"(", "(">> \o From(s, x + 2)
        ELSE SubSeq(s, 1, x) \o <<"(", "(">> \o a.toks \o <<")", ")">>
               \o RewriteMarkers(a.rest)

\* What a run that reaches "Prepare Template" with the given template text,
\* delimiter specification, strictness and data ends with, and writes.
RunOf(text, spec, strict, d) ==
    IF spec # Empty /\ badDelimiters(spec)
    THEN [exit |-> DelimiterError, out |-> <<>>]
    ELSE LET p == Parse(text, IF spec # Empty THEN splitDelims(spec) ELSE defaultDelims)
             r == Execute([nodes |-> p.nodes, strict |-> strict], d)
         IN  IF ~p.ok THEN [exit |-> Fatal("Error parsing template"), out |-> <<>>]
             ELSE IF r.err THEN [exit |-> RenderError, out |-> <<>>]
             ELSE [exit |-> Exit0("done"), out |-> r.out]

\* The run at hand, once over: its exit, and its output if it succeeded.
ThisRun == [exit |-> exit, out |-> IF exit = Exit0("done") THEN stdout ELSE <<>>]

HasParens(s) == \E i \in 1..Len(s) : s[i] \in {"(", ")"}

-----------------------------------------------------------------------------
(* Properties.                                                             *)

\* C1: when the subtree path is written with a leading '.' and each of its
\* segments names a key present in a mapping at that step, getSubTree does
\* not fault, data becomes exactly the value stored at that path, and the
\* template is rendered against that value: what Execute writes is what
\* rendering against the value at the path writes, and path .a on
\* {a: {b: {a: v3}}} makes {{.b.a}} render v3.
C1_SubtreeNavigation ==
    (/\ navRan
     /\ dataFile.ok
     /\ Dotted(subtree)
     /\ Resolves(dataFile.root, DottedSegments(subtree)))
    => /\ exit # Panic
       /\ data = ValueAt(dataFile.root, DottedSegments(subtree))
       /\ HasRun("execute") =>
            stdout = Execute(tpl, ValueAt(dataFile.root, DottedSegments(subtree))).out
       /\ (/\ HasRun("execute")
           /\ dataFile.root = RootNested
           /\ subtree = Dot \o KA
           /\ tplStr = Act(<<".b", ".a">>))
          => exit = Exit0("done") /\ stdout = <<"v", "3">>

\* C1 witness: the run of the example has rendered v3 from the subtree.
C1_Witness ==
    /\ pc = "exited"
    /\ exit = Exit0("done")
    /\ navRan
    /\ dataFile.root = RootNested
    /\ subtree = Dot \o KA
    /\ tplStr = Act(<<".b", ".a">>)
    /\ stdout = <<"v", "3">>

\* C2: a key absent from a mapping never aborts rendering without --strict:
\* a run whose actions only resolve or miss keys completes with exit status
\* 0, and a render error without --strict always comes from a field asked of
\* a value that is no mapping.  With --strict every run whose template looks
\* up a key absent from a mapping ends with 'Error rendering template'.
C2_MissingKeyPolicy ==
    HasRun("execute") =>
        LET cls == ActionClasses
            missing == \E i \in 1..Len(cls) : cls[i] = "missing"
            fault == \E i \in 1..Len(cls) : cls[i] = "fault"
        IN  /\ (~strictFlag /\ missing /\ ~fault) => exit = Exit0("done")
            /\ (~strictFlag /\ exit = RenderError) => fault
            /\ (strictFlag /\ missing) => exit = RenderError

\* C2 witness: without --strict a run that looked up an absent key of a
\* mapping has completed, the absent value written as <no value>.
C2_Witness ==
    /\ pc = "exited"
    /\ exit = Exit0("done")
    /\ ~strictFlag
    /\ IsMap(data)
    /\ \E i \in 1..Len(ActionClasses) : ActionClasses[i] = "missing"
    /\ \E i \in 1..Len(stdout) : stdout[i] = "<no value>"

\* C3: an environment entry whose value contains '=' is split at the first
\* '=' only: the name maps to everything after the first '='.
C3_EnvSplitAtFirstEquals ==
    (HasRun("loadData") /\ envFlag)
    => \A i \in 1..Len(environ) :
          LET e == environ[i]
              name == SubSeq(e, 1, IndexOf(e, "=") - 1)
              value == From(e, IndexOf(e, "="))
          IN  (Count(value, "=") > 0 /\ Len(environ) = 1)
              => MapGet(data, name) = Str(value)

\* C4: on a command line that reaches the data-source check, the process
\* goes on to read the template and load the data if and only if exactly one
\* of the three selectors is set; otherwise it ends in parseArgs with the
\* usage error, nothing read and nothing written.  No run reads the template
\* with zero or several selectors set.
C4_ExactlyOneSource ==
    /\ SelectorsChecked =>
          IF ExactlyOne(osArgs)
          THEN HasRun("parseArgs") /\ exit \notin UsageErrors
               /\ (pc = "exited" => HasRun("readInput"))
          ELSE /\ pc = "exited"
               /\ exit = Fatal("Error: please specify --json-data, --yaml-data or --env-data")
               /\ tplStr = Empty /\ data = Nil /\ ~err /\ ~navRan
               /\ stdout = <<>> /\ fileOut = OldContents
    /\ (pc \notin {"parseArgs", "exited"} \/ HasRun("readInput")) => ExactlyOne(osArgs)

\* C4 witness: two selectors were given and the run ended with the usage error.
C4_Witness ==
    /\ pc = "exited"
    /\ osArgs.json # "" /\ osArgs.env /\ ~osArgs.help /\ ~osArgs.version
    /\ exit = Fatal("Error: please specify --json-data, --yaml-data or --env-data")

\* C5: a non-empty delimiter specification that reaches the delimiter check
\* is accepted if and only if it has exactly one ':' with a non-empty left
\* and a non-empty right side, and then the template's delimiters are those
\* two sides; any other specification ends the run with the 'invalid
\* delimiter format' error, the template not parsed, nothing written and the
\* output file not created.
C5_DelimiterValidation ==
    (HasRun("prepareTemplate") /\ delimiters # Empty)
    => IF \E i \in 2..(Len(delimiters) - 1) :
             /\ delimiters[i] = ":"
             /\ \A j \in (1..Len(delimiters)) \ {i} : delimiters[j] # ":"
       THEN /\ exit # DelimiterError
            /\ HasRun("createOutput") \/ pc = "createOutput"
                  => /\ tpl.delims.left \o Colon \o tpl.delims.right = delimiters
                     /\ tpl.delims.left # Empty
                     /\ tpl.delims.right # Empty
       ELSE /\ pc = "exited"
            /\ exit = DelimiterError
            /\ tpl = NoTpl
            /\ stdout = <<>>
            /\ fileOut = OldContents

\* C5 witness: a specification with one ':' and an empty side was rejected.
C5_Witness ==
    /\ pc = "exited"
    /\ exit = DelimiterError
    /\ Count(delimiters, ":") = 1
    /\ Len(delimiters) > 1

\* C6: a subtree path given together with the environment source ends the
\* run with a usage error; the run does not go on with the subtree ignored.
C6_SubtreeWithEnvRejected ==
    (SelectorsChecked /\ osArgs.env /\ osArgs.subtree # Empty)
    => pc = "exited" /\ exit \in UsageErrors

\* C7: when, following the path, a value that is not a mapping (a scalar, a
\* sequence or null) is met while a segment remains, the run ends with a
\* reported error (exit status 1), never with a runtime panic.
C7_NonMappingIsCleanError ==
    (/\ pc = "exited"
     /\ navRan
     /\ dataFile.ok
     /\ Dotted(subtree)
     /\ HitsNonMap(dataFile.root, DottedSegments(subtree)))
    => exit.code = 1

\* C8: the keys getSubTree looks up are the '.'-separated segments of the
\* path with only a leading '.' ignored, so a path without the leading '.'
\* walks every segment it names.
C8_PathSegmentsWalked ==
    (navRan /\ dataFile.ok /\ exit # Panic)
    => walked = Split(IF Head(subtree) = "." THEN Tail(subtree) ELSE subtree, ".")

\* C9 as claimed: every run of a template that parses in the default
\* delimiters ends as the run of the same template with its markers
\* rewritten to (( and )) under the delimiter specification ((:)) ends, on
\* the same data: the same output, or the same error.
C9_DelimiterOverrideAnyTemplate ==
    (pc = "exited" /\ HasRun("createOutput") /\ delimiters = Empty)
    => RunOf(RewriteMarkers(tplStr), ParenDelims, strictFlag, data) = ThisRun

\* C9 amended: the same, for every template that holds no parenthesis.
C9_DelimiterOverride ==
    (pc = "exited" /\ HasRun("prepareTemplate") /\ delimiters = Empty
        /\ ~HasParens(tplStr))
    => RunOf(RewriteMarkers(tplStr), ParenDelims, strictFlag, data) = ThisRun

\* C9 witness: a template with a substitution has rendered v3 in the
\* default delimiters, and its rewriting is the README's (( .a )) form.
C9_Witness ==
    /\ pc = "exited"
    /\ exit = Exit0("done")
    /\ delimiters = Empty
    /\ tplStr = Act(<<".a">>)
    /\ RewriteMarkers(tplStr) = <<"(", "(", ".a", ")", ")">>
    /\ stdout = <<"v", "3">>

\* Every run past "Prepare Template" ends as RunOf says.
RunOfAgrees ==
    (pc = "exited" /\ HasRun("prepareTemplate")) =>
        RunOf(tplStr, delimiters, strictFlag, data) = ThisRun

\* C10: a JSON or YAML load that fails ends the run with 'Error opening data
\* file', with or without a subtree path; getSubTree is not run on the
\* result of the failed load and there is no panic.
C10_LoadFailureReported ==
    (HasRun("loadData") /\ err)
    => exit = Fatal("Error opening data file") /\ ~navRan

\* Following present keys through mappings, a mapping is reached that lacks
\* the key of the next segment (the last segment or an earlier one).
RECURSIVE AbsentAt(_, _)
AbsentAt(v, segs) ==
    /\ segs # <<>>
    /\ IsMap(v)
    /\ \/ Head(segs) \notin DOMAIN v.m
       \/ AbsentAt(v.m[Head(segs)], Tail(segs))

\* C11: on a mapping root, when the key of some segment of the subtree path
\* (a path of named segments; the last segment or an earlier one) is absent from the mapping at its step,
\* getSubTree returns nil without a panic and the run goes on to the
\* template with nil as its data.
C11_AbsentKeyPropagates ==
    (/\ HasRun("loadData")
     /\ navRan
     /\ dataFile.ok
     /\ IsMap(dataFile.root)
     /\ Dotted(subtree)
     /\ \A i \in 1..Len(DottedSegments(subtree)) : DottedSegments(subtree)[i] # Empty
     /\ AbsentAt(dataFile.root, DottedSegments(subtree)))
    => exit # Panic /\ data = Nil /\ (pc = "exited" => HasRun("prepareTemplate"))

\* The part of C11 that the source does: when the absent key is that of the
\* last segment, getSubTree returns nil and the run reaches the template.
AbsentLastKeyPropagates ==
    (/\ HasRun("loadData")
     /\ navRan
     /\ dataFile.ok
     /\ Dotted(subtree)
     /\ Len(DottedSegments(subtree)) > 0
     /\ Resolves(dataFile.root, SubSeq(DottedSegments(subtree), 1,
                                       Len(DottedSegments(subtree)) - 1))
     /\ IsMap(ValueAt(dataFile.root, SubSeq(DottedSegments(subtree), 1,
                                            Len(DottedSegments(subtree)) - 1)))
     /\ AbsentAt(dataFile.root, DottedSegments(subtree)))
    => exit # Panic /\ data = Nil /\ (pc = "exited" => HasRun("prepareTemplate"))

\* The run has ended in one of the blocks before the output is opened:
\* reading the template, loading the data and applying the subtree,
\* validating the delimiters and parsing the template.
FailedEarly ==
    /\ pc = "exited"
    /\ exit.code # 0
    /\ ExitBlock(exit) \in {"readInput", "loadData", "prepareTemplate"}

\* C12: the output file is created or truncated only once the template was
\* read, the data loaded, the subtree applied, the delimiters validated and
\* the template parsed, all with success; a run that fails in one of those
\* steps leaves the contents of the output file as they were and writes
\* nothing to the output.
C12_OutputUntouchedOnEarlierFailure ==
    /\ fileOut # OldContents =>
          /\ toFile
          /\ HasRun("createOutput")
          /\ ~err
          /\ ~(delimiters # Empty /\ badDelimiters(delimiters))
          /\ Parse(tplStr, tpl.delims).ok
    /\ FailedEarly => fileOut = OldContents /\ stdout = <<>>

\* C12 witness: a run to an output file that could be created has ended
\* with a template that does not parse, the file as it was.
C12_Witness ==
    /\ pc = "exited"
    /\ exit = Fatal("Error parsing template")
    /\ toFile
    /\ createOK
    /\ fileOut = OldContents
    /\ stdout = <<>>

====
